---- MODULE Spec2Model ----
(***************************************************************************)
(* The UDP input service of services/udp/service.go as a state machine.    *)
(*                                                                         *)
(* Goroutines: the supervisor (RunWithReady), its caller (Run / Open /     *)
(* Close), the inner blocking-read goroutine of serve, the outer serve     *)
(* loop, the parser loop, the writer loop and the goroutine of the point   *)
(* batcher.  A channel receive and the matching send on an unbuffered      *)
(* channel are one step; a Go select with several ready cases is a         *)
(* nondeterministic choice between them.                                   *)
(*                                                                         *)
(* A datagram is a sequence of tokens: a positive number is one line that  *)
(* decodes to the point with that id, 0 is a byte that does not decode.    *)
(* Ids are handed out in the order the socket delivers the datagrams.      *)
(***************************************************************************)
EXTENDS Integers, Sequences, FiniteSets, TLC

\* Capacity of the relay channel parserChan (1000 in the source, scaled).
parserChanLen == 1
\* Length of the read buffer, in tokens (64 KiB in the source, scaled).
MaxUDPPayload == 2
\* config.BatchSize and config.BatchPending of the running instance.
BatchSize == 2
BatchPending == 1
\* Number of datagrams the network delivers, of socket reads that fail
\* while the socket is open, and of batches the flush timer releases.
MaxDatagrams == 2
MaxReadErrors == 1
MaxTimeouts == 1

\* Shapes of the datagrams the network delivers: 1 stands for a line that
\* decodes, 0 for one that does not.
DatagramShapes == { <<1, 1>>, <<1, 0>> }
\* A datagram of one valid line.
SingleRecord == { <<1>> }

Configs ==
  { [BindAddress |-> "",      Database |-> "udp", ReadBuffer |-> 0],
    [BindAddress |-> ":8089", Database |-> "",    ReadBuffer |-> 0],
    [BindAddress |-> ":8089", Database |-> "udp", ReadBuffer |-> 0],
    [BindAddress |-> ":8089", Database |-> "udp", ReadBuffer |-> 1] }

\* The configurations under which the pipeline is explored: the invalid
\* ones and the valid one that sets the read buffer.
RunConfigs == { c \in Configs : c.ReadBuffer # 0 \/ c.BindAddress = "" \/ c.Database = "" }

VARIABLES
  config,         \* s.config
  runPc,          \* position of the goroutine executing RunWithReady
  runErr,         \* value returned by RunWithReady
  readyChan,      \* the ready channel: "open" or "closed"
  callerPc,       \* position of the caller of Run / RunWithReady / Open / Close
  callerResult,   \* what the caller's last call returned
  cancelled,      \* ctx.Done() is closed
  wg,             \* s.wg counter
  conn,           \* s.conn: "nil", "open", "closed"
  readerPc,       \* inner read goroutine of serve
  payload,        \* the inner goroutine's readpayload
  buf,            \* serve's read buffer, shared by both serve goroutines
  nextId,         \* id of the next line the network delivers
  reads,          \* datagrams the socket has delivered
  readErrs,       \* socket reads that failed while the socket was open
  readsSinceHandoff, \* history: reads returned since the outer loop last received a handoff
  servePc,        \* outer serve loop
  servePayload,   \* the outer loop's payload
  bufCopy,        \* the outer loop's bufCopy
  parserChan,     \* s.parserChan
  parserPc,       \* parser loop
  points,         \* parser's decoded points
  pidx,           \* index of the next point the parser hands to the batcher
  batcherPc,      \* goroutine of the point batcher
  batcherIn,      \* batcher input channel
  batcherBatch,   \* batch the batcher is accumulating
  batchNo,        \* history: number of batches the batcher has released
  timeouts,       \* history: number of batches released by the flush timer
  writerPc,       \* writer loop
  batch,          \* the writer's batch
  ready,          \* s.ready
  stats,          \* s.stats
  handedIn,       \* history: number of records handed into the batcher input
  createLog,      \* history: CreateDatabase calls, [no, ok]
  writeLog        \* history: WritePointsPrivileged calls, [no, pts, ok]

cfgVars == <<config>>
lifeVars == <<runPc, runErr, readyChan, callerPc, callerResult>>
readerVars == <<readerPc, payload, buf, nextId, reads, readErrs, readsSinceHandoff>>
serveVars == <<servePc, servePayload, bufCopy>>
parserVars == <<parserPc, points, pidx, handedIn>>
batcherVars == <<batcherPc, batcherIn, batcherBatch, batchNo, timeouts>>
writerVars == <<writerPc, batch>>
logVars == <<createLog, writeLog>>

vars == <<cfgVars, lifeVars, cancelled, wg, conn, readerVars, serveVars,
          parserChan, parserVars, batcherVars, writerVars, ready, stats,
          logVars>>

NoPayload == [nbytes |-> 0, err |-> FALSE, data |-> <<>>]
NoBatch == [no |-> 0, pts |-> <<>>]

ZeroStats ==
  [PointsReceived |-> 0, BytesReceived |-> 0, PointsParseFail |-> 0,
   ReadFail |-> 0, BatchesTransmitted |-> 0, PointsTransmitted |-> 0,
   BatchesTransmitFail |-> 0]

\* stats with counter f increased by n (atomic.AddInt64).
AddInt64(f, n) == [stats EXCEPT ![f] = @ + n]

\* The state after NewService, before any entry point is called.
InitWith(configs) ==
  /\ config \in configs
  /\ runPc = "idle"
  /\ runErr = "none"
  /\ readyChan = "open"
  /\ callerPc = "init"
  /\ callerResult = "none"
  /\ cancelled = FALSE
  /\ wg = 0
  /\ conn = "nil"
  /\ readerPc = "none"
  /\ payload = NoPayload
  /\ buf = [i \in 1..MaxUDPPayload |-> 0]
  /\ nextId = 1
  /\ reads = 0
  /\ readErrs = 0
  /\ readsSinceHandoff = 0
  /\ servePc = "none"
  /\ servePayload = NoPayload
  /\ bufCopy = <<>>
  /\ parserChan = <<>>
  /\ parserPc = "none"
  /\ points = <<>>
  /\ pidx = 1
  /\ batcherPc = "none"
  /\ batcherIn = <<>>
  /\ batcherBatch = <<>>
  /\ batchNo = 0
  /\ timeouts = 0
  /\ writerPc = "none"
  /\ batch = NoBatch
  /\ ready = FALSE
  /\ stats = ZeroStats
  /\ handedIn = 0
  /\ createLog = <<>>
  /\ writeLog = <<>>

Init == InitWith(RunConfigs)

(***************************************************************************)
(* Lifecycle: Run, Open, Close and RunWithReady                            *)
(***************************************************************************)

\* Run: ready := make(chan struct{}), then the call of RunWithReady.
Run ==
  /\ callerPc = "init"
  /\ callerPc' = "run"
  /\ UNCHANGED <<cfgVars, runPc, runErr, readyChan, callerResult, cancelled,
                 wg, conn, readerVars, serveVars, parserChan, parserVars,
                 batcherVars, writerVars, ready, stats, logVars>>

\* RunWithReady called, by Run or directly: the caller blocks in the call
\* and gets what it returns.
RunWithReady ==
  /\ callerPc \in {"init", "run"}
  /\ callerPc' = "in_run"
  /\ runPc' = "validate"
  /\ UNCHANGED <<cfgVars, runErr, readyChan, callerResult, cancelled, wg, conn,
                 readerVars, serveVars, parserChan, parserVars, batcherVars,
                 writerVars, ready, stats, logVars>>

\* Open: starts RunWithReady in a goroutine and waits for the ready channel.
Open ==
  /\ callerPc = "init"
  /\ callerPc' = "wait_ready"
  /\ runPc' = "validate"
  /\ UNCHANGED <<cfgVars, runErr, readyChan, callerResult, cancelled, wg, conn,
                 readerVars, serveVars, parserChan, parserVars, batcherVars,
                 writerVars, ready, stats, logVars>>

\* Open: <-ready; return nil.
OpenReturn ==
  /\ callerPc = "wait_ready"
  /\ readyChan = "closed"
  /\ callerPc' = "opened"
  /\ callerResult' = "nil"
  /\ UNCHANGED <<cfgVars, runPc, runErr, readyChan, cancelled, wg, conn,
                 readerVars, serveVars, parserChan, parserVars, batcherVars,
                 writerVars, ready, stats, logVars>>

\* Close: s.cancel(), then wait for errChan.
Close ==
  /\ callerPc = "opened"
  /\ cancelled' = TRUE
  /\ callerPc' = "wait_err"
  /\ callerResult' = "none"
  /\ UNCHANGED <<cfgVars, runPc, runErr, readyChan, wg, conn,
                 readerVars, serveVars, parserChan, parserVars, batcherVars,
                 writerVars, ready, stats, logVars>>

\* Close receives from errChan what Open's goroutine sends: RunWithReady's result.
CloseReturn ==
  /\ callerPc = "wait_err"
  /\ runPc = "returned"
  /\ runPc' = "exited"
  /\ callerPc' = "closed"
  /\ callerResult' = runErr
  /\ UNCHANGED <<cfgVars, runErr, readyChan, cancelled, wg, conn,
                 readerVars, serveVars, parserChan, parserVars, batcherVars,
                 writerVars, ready, stats, logVars>>

\* The context handed to Run / RunWithReady is cancelled by its owner.
Cancel ==
  /\ callerPc = "in_run"
  /\ ~cancelled
  /\ cancelled' = TRUE
  /\ UNCHANGED <<cfgVars, lifeVars, wg, conn,
                 readerVars, serveVars, parserChan, parserVars, batcherVars,
                 writerVars, ready, stats, logVars>>

\* RunWithReady returns e.  Called directly, its caller gets e; under Open
\* the goroutine goes on to send e on errChan.
Return(e) ==
  /\ runPc' = "returned"
  /\ runErr' = e
  /\ IF callerPc = "in_run"
       THEN callerPc' = "returned" /\ callerResult' = e
       ELSE UNCHANGED <<callerPc, callerResult>>

RunValidate ==
  /\ runPc = "validate"
  /\ IF config.BindAddress = "" \/ config.Database = ""
       THEN Return("err")
       ELSE runPc' = "resolve" /\ UNCHANGED <<runErr, callerPc, callerResult>>
  /\ UNCHANGED <<cfgVars, readyChan, cancelled, wg, conn,
                 readerVars, serveVars, parserChan, parserVars, batcherVars,
                 writerVars, ready, stats, logVars>>

RunResolve(outcomes) ==
  /\ runPc = "resolve"
  /\ \E ok \in outcomes :
       IF ok
         THEN runPc' = "listen" /\ UNCHANGED <<runErr, callerPc, callerResult>>
         ELSE Return("err")
  /\ UNCHANGED <<cfgVars, readyChan, cancelled, wg, conn,
                 readerVars, serveVars, parserChan, parserVars, batcherVars,
                 writerVars, ready, stats, logVars>>

RunListen(outcomes) ==
  /\ runPc = "listen"
  /\ \E ok \in outcomes :
       IF ok
         THEN /\ runPc' = "setbuf"
              /\ conn' = "open"
              /\ UNCHANGED <<runErr, callerPc, callerResult>>
         ELSE Return("err") /\ UNCHANGED conn
  /\ UNCHANGED <<cfgVars, readyChan, cancelled, wg,
                 readerVars, serveVars, parserChan, parserVars, batcherVars,
                 writerVars, ready, stats, logVars>>

RunSetReadBuffer(outcomes) ==
  /\ runPc = "setbuf"
  /\ IF config.ReadBuffer # 0
       THEN \E ok \in outcomes :
              IF ok
                THEN runPc' = "batcher" /\ UNCHANGED <<runErr, callerPc, callerResult>>
                ELSE Return("err")
       ELSE runPc' = "batcher" /\ UNCHANGED <<runErr, callerPc, callerResult>>
  /\ UNCHANGED <<cfgVars, readyChan, cancelled, wg, conn,
                 readerVars, serveVars, parserChan, parserVars, batcherVars,
                 writerVars, ready, stats, logVars>>

\* tsdb.NewPointBatcher(...); s.batcher.Start()
RunStartBatcher ==
  /\ runPc = "batcher"
  /\ runPc' = "launch_serve"
  /\ batcherPc' = "run"
  /\ UNCHANGED <<cfgVars, runErr, readyChan, callerPc, callerResult, cancelled,
                 wg, conn, readerVars, serveVars, parserChan, parserVars,
                 batcherIn, batcherBatch, batchNo, timeouts,
                 writerVars, ready, stats, logVars>>

\* s.wg.Add(3); go s.serve(ctx)
RunLaunchServe ==
  /\ runPc = "launch_serve"
  /\ runPc' = "launch_parser"
  /\ wg' = wg + 3
  /\ servePc' = "init"
  /\ UNCHANGED <<cfgVars, runErr, readyChan, callerPc, callerResult, cancelled,
                 conn, readerVars, servePayload, bufCopy, parserChan,
                 parserVars, batcherVars, writerVars, ready, stats, logVars>>

\* RunLaunchParser with close(ready) moved in front of the remaining go
\* statements.
RunLaunchParser_ReadyFirst ==
  /\ runPc = "launch_parser"
  /\ runPc' = "launch_writer"
  /\ parserPc' = "select"
  /\ readyChan' = "closed"
  /\ UNCHANGED <<cfgVars, runErr, callerPc, callerResult, cancelled,
                 wg, conn, readerVars, serveVars, parserChan, points, pidx,
                 handedIn, batcherVars, writerVars, ready, stats, logVars>>

\* go s.parser(ctx)
RunLaunchParser ==
  /\ runPc = "launch_parser"
  /\ runPc' = "launch_writer"
  /\ parserPc' = "select"
  /\ UNCHANGED <<cfgVars, runErr, readyChan, callerPc, callerResult, cancelled,
                 wg, conn, readerVars, serveVars, parserChan, points, pidx,
                 handedIn, batcherVars, writerVars, ready, stats, logVars>>

\* go s.writer(ctx)
RunLaunchWriter ==
  /\ runPc = "launch_writer"
  /\ runPc' = "close_ready"
  /\ writerPc' = "select"
  /\ UNCHANGED <<cfgVars, runErr, readyChan, callerPc, callerResult, cancelled,
                 wg, conn, readerVars, serveVars, parserChan, parserVars,
                 batcherVars, batch, ready, stats, logVars>>

\* close(ready)
RunCloseReady ==
  /\ runPc = "close_ready"
  /\ runPc' = "wait"
  /\ readyChan' = "closed"
  /\ UNCHANGED <<cfgVars, runErr, callerPc, callerResult, cancelled,
                 wg, conn, readerVars, serveVars, parserChan, parserVars,
                 batcherVars, writerVars, ready, stats, logVars>>

\* RunWait that returns without waiting for the loops.
RunWait_NoWait ==
  /\ runPc = "wait"
  /\ Return("nil")
  /\ UNCHANGED <<cfgVars, readyChan, cancelled, wg, conn,
                 readerVars, serveVars, parserChan, parserVars, batcherVars,
                 writerVars, ready, stats, logVars>>

\* s.wg.Wait(); return nil
RunWait ==
  /\ runPc = "wait"
  /\ wg = 0
  /\ Return("nil")
  /\ UNCHANGED <<cfgVars, readyChan, cancelled, wg, conn,
                 readerVars, serveVars, parserChan, parserVars, batcherVars,
                 writerVars, ready, stats, logVars>>

(***************************************************************************)
(* Listener stage: serve and its inner read goroutine                      *)
(***************************************************************************)

\* The datagram of shape sh whose first line has id n.
Stamp(sh, n) == [i \in 1..Len(sh) |-> IF sh[i] = 0 THEN 0 ELSE n + i - 1]

\* ReadFromUDP(buf) stores datagram d at the start of b.
ReadInto(b, d) == [i \in 1..Len(b) |-> IF i <= Len(d) THEN d[i] ELSE b[i]]

\* serve up to the start of its loop: buf, payloadChan and the inner goroutine.
ServeInit ==
  /\ servePc = "init"
  /\ servePc' = "select"
  /\ readerPc' = "read"
  /\ buf' = [i \in 1..MaxUDPPayload |-> 0]
  /\ UNCHANGED <<cfgVars, lifeVars, cancelled, wg, conn, payload, nextId,
                 reads, readErrs, readsSinceHandoff, servePayload, bufCopy, parserChan,
                 parserVars, batcherVars, writerVars, ready, stats, logVars>>

\* ReaderRead with a handoff that does not wait for the outer loop: the
\* result is left for it and the next read is issued at once.
ReaderRead_NoWait(shapes, limit) ==
  /\ readerPc = "read"
  /\ conn = "open"
  /\ reads < limit
  /\ \E sh \in shapes :
       LET d == Stamp(sh, nextId) IN
         /\ buf' = ReadInto(buf, d)
         /\ payload' = [nbytes |-> Len(d), err |-> FALSE, data |-> d]
         /\ nextId' = nextId + Len(sh)
  /\ reads' = reads + 1
  /\ readsSinceHandoff' = readsSinceHandoff + 1
  /\ readerPc' \in {"read", "handoff"}
  /\ UNCHANGED <<cfgVars, lifeVars, cancelled, wg, conn, readErrs, serveVars,
                 parserChan, parserVars, batcherVars, writerVars, ready,
                 stats, logVars>>

\* Inner goroutine: ReadFromUDP(buf) returns a datagram.
ReaderRead(shapes, limit) ==
  /\ readerPc = "read"
  /\ conn = "open"
  /\ reads < limit
  /\ \E sh \in shapes :
       LET d == Stamp(sh, nextId) IN
         /\ buf' = ReadInto(buf, d)
         /\ payload' = [nbytes |-> Len(d), err |-> FALSE, data |-> d]
         /\ nextId' = nextId + Len(sh)
  /\ reads' = reads + 1
  /\ readsSinceHandoff' = readsSinceHandoff + 1
  /\ readerPc' = "handoff"
  /\ UNCHANGED <<cfgVars, lifeVars, cancelled, wg, conn, readErrs, serveVars,
                 parserChan, parserVars, batcherVars, writerVars, ready,
                 stats, logVars>>

\* Inner goroutine: ReadFromUDP(buf) returns an error on the open socket.
ReaderReadError ==
  /\ readerPc = "read"
  /\ conn = "open"
  /\ readErrs < MaxReadErrors
  /\ payload' = [nbytes |-> 0, err |-> TRUE, data |-> <<>>]
  /\ readErrs' = readErrs + 1
  /\ readsSinceHandoff' = readsSinceHandoff + 1
  /\ readerPc' = "handoff"
  /\ UNCHANGED <<cfgVars, lifeVars, cancelled, wg, conn, buf, nextId, reads,
                 serveVars, parserChan, parserVars, batcherVars, writerVars,
                 ready, stats, logVars>>

\* Inner goroutine: ReadFromUDP(buf) fails because the socket was closed.
ReaderReadClosed ==
  /\ readerPc = "read"
  /\ conn = "closed"
  /\ payload' = [nbytes |-> 0, err |-> TRUE, data |-> <<>>]
  /\ readsSinceHandoff' = readsSinceHandoff + 1
  /\ readerPc' = "handoff"
  /\ UNCHANGED <<cfgVars, lifeVars, cancelled, wg, conn, buf, nextId, reads,
                 readErrs, serveVars, parserChan, parserVars, batcherVars,
                 writerVars, ready, stats, logVars>>

\* Outer loop, case <-ctx.Done(): s.conn.Close(); return (deferred wg.Done).
ServeCancel ==
  /\ servePc = "select"
  /\ cancelled
  /\ conn' = "closed"
  /\ wg' = wg - 1
  /\ servePc' = "done"
  /\ UNCHANGED <<cfgVars, lifeVars, cancelled, readerVars, servePayload,
                 bufCopy, parserChan, parserVars, batcherVars, writerVars,
                 ready, stats, logVars>>

\* ServeRecv that returns from serve when the read failed.
ServeRecv_ReturnOnError ==
  /\ servePc = "select"
  /\ readerPc = "handoff"
  /\ payload' = NoPayload
  /\ readerPc' = "read"
  /\ readsSinceHandoff' = 0
  /\ IF payload.err
       THEN /\ stats' = AddInt64("ReadFail", 1)
            /\ servePc' = "done"
            /\ wg' = wg - 1
            /\ UNCHANGED servePayload
       ELSE /\ servePayload' = payload
            /\ servePc' = "got"
            /\ UNCHANGED <<stats, wg>>
  /\ UNCHANGED <<cfgVars, lifeVars, cancelled, conn, buf, nextId, reads,
                 readErrs, bufCopy, parserChan, parserVars, batcherVars,
                 writerVars, ready, logVars>>

\* Outer loop, case payload := <-payloadChan: the handoff of the inner
\* goroutine completes and it loops to its next read.  A read error is
\* counted and the loop continues.
ServeRecv ==
  /\ servePc = "select"
  /\ readerPc = "handoff"
  /\ payload' = NoPayload
  /\ readerPc' = "read"
  /\ readsSinceHandoff' = 0
  /\ IF payload.err
       THEN /\ stats' = AddInt64("ReadFail", 1)
            /\ UNCHANGED <<servePc, servePayload>>
       ELSE /\ servePayload' = payload
            /\ servePc' = "got"
            /\ UNCHANGED stats
  /\ UNCHANGED <<cfgVars, lifeVars, cancelled, wg, conn, buf, nextId, reads,
                 readErrs, bufCopy, parserChan, parserVars, batcherVars,
                 writerVars, ready, logVars>>

\* Outer loop: count the bytes and copy buf[:payload.nbytes].
ServeCopy ==
  /\ servePc = "got"
  /\ stats' = AddInt64("BytesReceived", servePayload.nbytes)
  /\ bufCopy' = SubSeq(buf, 1, servePayload.nbytes)
  /\ servePc' = "forward"
  /\ UNCHANGED <<cfgVars, lifeVars, cancelled, wg, conn, readerVars,
                 servePayload, parserChan, parserVars, batcherVars,
                 writerVars, ready, logVars>>

\* ServeForward with a send that gives up when the channel is full.
ServeForward_Drop ==
  /\ servePc = "forward"
  /\ parserChan' = IF Len(parserChan) < parserChanLen
                     THEN Append(parserChan, bufCopy) ELSE parserChan
  /\ servePayload' = NoPayload
  /\ bufCopy' = <<>>
  /\ servePc' = "select"
  /\ UNCHANGED <<cfgVars, lifeVars, cancelled, wg, conn, readerVars,
                 parserVars, batcherVars, writerVars, ready, stats, logVars>>

\* Outer loop: s.parserChan <- bufCopy, blocking while the channel is full.
ServeForward ==
  /\ servePc = "forward"
  /\ Len(parserChan) < parserChanLen
  /\ parserChan' = Append(parserChan, bufCopy)
  /\ servePayload' = NoPayload
  /\ bufCopy' = <<>>
  /\ servePc' = "select"
  /\ UNCHANGED <<cfgVars, lifeVars, cancelled, wg, conn, readerVars,
                 parserVars, batcherVars, writerVars, ready, stats, logVars>>

(***************************************************************************)
(* Decoder stage: parser                                                   *)
(***************************************************************************)

\* models.ParsePointsWithPrecision: the lines that decode, and whether any
\* line failed to.
ParsePointsWithPrecision(b) ==
  [points |-> SelectSeq(b, LAMBDA t : t # 0),
   err |-> \E i \in 1..Len(b) : b[i] = 0]

\* case <-ctx.Done(): return
ParserCancel ==
  /\ parserPc = "select"
  /\ cancelled
  /\ wg' = wg - 1
  /\ parserPc' = "done"
  /\ UNCHANGED <<cfgVars, lifeVars, cancelled, conn, readerVars, serveVars,
                 parserChan, points, pidx, handedIn, batcherVars, writerVars,
                 ready, stats, logVars>>

\* ParserRecv that keeps the lines that decoded when another line failed.
ParserRecv_KeepPartial ==
  /\ parserPc = "select"
  /\ parserChan # <<>>
  /\ parserChan' = Tail(parserChan)
  /\ LET r == ParsePointsWithPrecision(Head(parserChan)) IN
       /\ stats' = IF r.err THEN AddInt64("PointsParseFail", 1) ELSE stats
       /\ points' = r.points
       /\ parserPc' = IF r.points = <<>> THEN "count" ELSE "send"
  /\ UNCHANGED <<cfgVars, lifeVars, cancelled, wg, conn, readerVars,
                 serveVars, pidx, handedIn, batcherVars, writerVars, ready,
                 logVars>>

\* ParserRecv that counts the decoded records before handing them on.
ParserRecv_CountFirst ==
  /\ parserPc = "select"
  /\ parserChan # <<>>
  /\ parserChan' = Tail(parserChan)
  /\ LET r == ParsePointsWithPrecision(Head(parserChan)) IN
       IF r.err
         THEN /\ stats' = AddInt64("PointsParseFail", 1)
              /\ UNCHANGED <<points, parserPc>>
         ELSE /\ points' = r.points
              /\ parserPc' = IF r.points = <<>> THEN "select" ELSE "send"
              /\ stats' = AddInt64("PointsReceived", Len(r.points))
  /\ UNCHANGED <<cfgVars, lifeVars, cancelled, wg, conn, readerVars,
                 serveVars, pidx, handedIn, batcherVars, writerVars, ready,
                 logVars>>

\* case buf := <-s.parserChan, and the decode of buf.  A decode failure is
\* counted and the loop continues.
ParserRecv ==
  /\ parserPc = "select"
  /\ parserChan # <<>>
  /\ parserChan' = Tail(parserChan)
  /\ LET r == ParsePointsWithPrecision(Head(parserChan)) IN
       IF r.err
         THEN /\ stats' = AddInt64("PointsParseFail", 1)
              /\ UNCHANGED <<points, parserPc>>
         ELSE /\ points' = r.points
              /\ parserPc' = IF r.points = <<>> THEN "count" ELSE "send"
              /\ UNCHANGED stats
  /\ UNCHANGED <<cfgVars, lifeVars, cancelled, wg, conn, readerVars,
                 serveVars, pidx, handedIn, batcherVars, writerVars, ready,
                 logVars>>

\* Capacity of the batcher's input channel.
BatcherInCap == BatchPending * BatchSize

\* s.batcher.In() <- point, blocking while the batcher input is full.
ParserSend ==
  /\ parserPc = "send"
  /\ Len(batcherIn) < BatcherInCap
  /\ batcherIn' = Append(batcherIn, points[pidx])
  /\ handedIn' = handedIn + 1
  /\ pidx' = pidx + 1
  /\ parserPc' = IF pidx = Len(points) THEN "count" ELSE "send"
  /\ UNCHANGED <<cfgVars, lifeVars, cancelled, wg, conn, readerVars,
                 serveVars, parserChan, points, batcherPc, batcherBatch,
                 batchNo, timeouts, writerVars, ready, stats, logVars>>

\* atomic.AddInt64(&s.stats.PointsReceived, int64(len(points)))
ParserCount ==
  /\ parserPc = "count"
  /\ stats' = AddInt64("PointsReceived", Len(points))
  /\ points' = <<>>
  /\ pidx' = 1
  /\ parserPc' = "select"
  /\ UNCHANGED <<cfgVars, lifeVars, cancelled, wg, conn, readerVars,
                 serveVars, parserChan, handedIn, batcherVars, writerVars,
                 ready, logVars>>

(***************************************************************************)
(* Batching stage: the point batcher                                       *)
(***************************************************************************)

\* The batcher takes a record from its input; a full batch is released.
BatcherTake ==
  /\ batcherPc = "run"
  /\ batcherIn # <<>>
  /\ batcherIn' = Tail(batcherIn)
  /\ batcherBatch' = Append(batcherBatch, Head(batcherIn))
  /\ batcherPc' = IF Len(batcherBatch) + 1 >= BatchSize THEN "emit" ELSE "run"
  /\ UNCHANGED <<cfgVars, lifeVars, cancelled, wg, conn, readerVars,
                 serveVars, parserChan, parserVars, batchNo, timeouts,
                 writerVars, ready, stats, logVars>>

\* The flush timeout elapses: the partial batch is released.
BatcherTimeout(limit) ==
  /\ batcherPc = "run"
  /\ batcherBatch # <<>>
  /\ timeouts < limit
  /\ batcherPc' = "emit"
  /\ timeouts' = timeouts + 1
  /\ UNCHANGED <<cfgVars, lifeVars, cancelled, wg, conn, readerVars,
                 serveVars, parserChan, parserVars, batcherIn, batcherBatch,
                 batchNo, writerVars, ready, stats, logVars>>

(***************************************************************************)
(* Delivery stage: writer and createInternalStorage                        *)
(***************************************************************************)

\* case <-ctx.Done(): return
WriterCancel ==
  /\ writerPc = "select"
  /\ cancelled
  /\ wg' = wg - 1
  /\ writerPc' = "done"
  /\ UNCHANGED <<cfgVars, lifeVars, cancelled, conn, readerVars, serveVars,
                 parserChan, parserVars, batcherVars, batch, ready, stats,
                 logVars>>

\* case batch := <-s.batcher.Out(): the batcher's release completes.
WriterRecv ==
  /\ writerPc = "select"
  /\ batcherPc = "emit"
  /\ batch' = [no |-> batchNo + 1, pts |-> batcherBatch]
  /\ batchNo' = batchNo + 1
  /\ batcherBatch' = <<>>
  /\ batcherPc' = "run"
  /\ writerPc' = "create"
  /\ UNCHANGED <<cfgVars, lifeVars, cancelled, wg, conn, readerVars,
                 serveVars, parserChan, parserVars, batcherIn, timeouts,
                 ready, stats, logVars>>

\* createInternalStorage that never records that the database exists.
createInternalStorage_NeverReady(outcomes) ==
  /\ writerPc = "create"
  /\ IF ready
       THEN writerPc' = "write" /\ UNCHANGED <<ready, createLog, batch>>
       ELSE \E ok \in outcomes :
              /\ createLog' = Append(createLog, [no |-> batch.no, ok |-> ok])
              /\ ready' = ready
              /\ IF ok
                   THEN writerPc' = "write" /\ UNCHANGED batch
                   ELSE writerPc' = "select" /\ batch' = NoBatch
  /\ UNCHANGED <<cfgVars, lifeVars, cancelled, wg, conn, readerVars,
                 serveVars, parserChan, parserVars, batcherVars, stats,
                 writeLog>>

\* createInternalStorage whose failure the writer ignores (no continue).
createInternalStorage_NoContinue(outcomes) ==
  /\ writerPc = "create"
  /\ IF ready
       THEN writerPc' = "write" /\ UNCHANGED <<ready, createLog>>
       ELSE \E ok \in outcomes :
              /\ createLog' = Append(createLog, [no |-> batch.no, ok |-> ok])
              /\ ready' = ok
              /\ writerPc' = "write"
  /\ UNCHANGED <<cfgVars, lifeVars, cancelled, wg, conn, readerVars,
                 serveVars, parserChan, parserVars, batcherVars, batch, stats,
                 writeLog>>

\* createInternalStorage and the writer's test of its result.
createInternalStorage(outcomes) ==
  /\ writerPc = "create"
  /\ IF ready
       THEN writerPc' = "write" /\ UNCHANGED <<ready, createLog, batch>>
       ELSE \E ok \in outcomes :
              /\ createLog' = Append(createLog, [no |-> batch.no, ok |-> ok])
              /\ IF ok
                   THEN ready' = TRUE /\ writerPc' = "write" /\ UNCHANGED batch
                   ELSE ready' = ready /\ writerPc' = "select" /\ batch' = NoBatch
  /\ UNCHANGED <<cfgVars, lifeVars, cancelled, wg, conn, readerVars,
                 serveVars, parserChan, parserVars, batcherVars, stats,
                 writeLog>>

\* s.PointsWriter.WritePointsPrivileged(..., batch)
WriterWrite(outcomes) ==
  /\ writerPc = "write"
  /\ \E ok \in outcomes :
       /\ writeLog' = Append(writeLog, [no |-> batch.no, pts |-> batch.pts, ok |-> ok])
       /\ writerPc' = IF ok THEN "acct_ok" ELSE "acct_fail"
  /\ UNCHANGED <<cfgVars, lifeVars, cancelled, wg, conn, readerVars,
                 serveVars, parserChan, parserVars, batcherVars, batch, ready,
                 stats, createLog>>

\* WriterCountOk that counts one point for the batch.
WriterCountOk_OnePoint ==
  /\ writerPc = "acct_ok"
  /\ stats' = [stats EXCEPT !.BatchesTransmitted = @ + 1,
                            !.PointsTransmitted = @ + 1]
  /\ batch' = NoBatch
  /\ writerPc' = "select"
  /\ UNCHANGED <<cfgVars, lifeVars, cancelled, wg, conn, readerVars,
                 serveVars, parserChan, parserVars, batcherVars, ready,
                 logVars>>

\* WriterCountOk that counts the capacity of the batch, not its length.
WriterCountOk_Capacity ==
  /\ writerPc = "acct_ok"
  /\ stats' = [stats EXCEPT !.BatchesTransmitted = @ + 1,
                            !.PointsTransmitted = @ + BatchSize]
  /\ batch' = NoBatch
  /\ writerPc' = "select"
  /\ UNCHANGED <<cfgVars, lifeVars, cancelled, wg, conn, readerVars,
                 serveVars, parserChan, parserVars, batcherVars, ready,
                 logVars>>

\* err == nil: BatchesTransmitted and PointsTransmitted are increased.
WriterCountOk ==
  /\ writerPc = "acct_ok"
  /\ stats' = [stats EXCEPT !.BatchesTransmitted = @ + 1,
                            !.PointsTransmitted = @ + Len(batch.pts)]
  /\ batch' = NoBatch
  /\ writerPc' = "select"
  /\ UNCHANGED <<cfgVars, lifeVars, cancelled, wg, conn, readerVars,
                 serveVars, parserChan, parserVars, batcherVars, ready,
                 logVars>>

\* WriterCountFail that goes back to write the same batch again.
WriterCountFail_Retry ==
  /\ writerPc = "acct_fail"
  /\ stats' = AddInt64("BatchesTransmitFail", 1)
  /\ writerPc' = "write"
  /\ UNCHANGED <<cfgVars, lifeVars, cancelled, wg, conn, readerVars,
                 serveVars, parserChan, parserVars, batcherVars, batch, ready,
                 logVars>>

\* WriterCountFail that also clears s.ready, so that the database is
\* created again.
WriterCountFail_ResetReady ==
  /\ writerPc = "acct_fail"
  /\ stats' = AddInt64("BatchesTransmitFail", 1)
  /\ batch' = NoBatch
  /\ ready' = FALSE
  /\ writerPc' = "select"
  /\ UNCHANGED <<cfgVars, lifeVars, cancelled, wg, conn, readerVars,
                 serveVars, parserChan, parserVars, batcherVars, logVars>>

\* atomic.AddInt64(&s.stats.BatchesTransmitFail, 1)
WriterCountFail ==
  /\ writerPc = "acct_fail"
  /\ stats' = AddInt64("BatchesTransmitFail", 1)
  /\ batch' = NoBatch
  /\ writerPc' = "select"
  /\ UNCHANGED <<cfgVars, lifeVars, cancelled, wg, conn, readerVars,
                 serveVars, parserChan, parserVars, batcherVars, ready,
                 logVars>>

(***************************************************************************)
(* Specifications                                                          *)
(***************************************************************************)

\* The service started through Run or RunWithReady, on a network that
\* delivers datagrams and read errors.
Next ==
  \/ Run
  \/ RunWithReady
  \/ Cancel
  \/ RunValidate
  \/ RunResolve(BOOLEAN)
  \/ RunListen(BOOLEAN)
  \/ RunSetReadBuffer(BOOLEAN)
  \/ RunStartBatcher
  \/ RunLaunchServe
  \/ RunLaunchParser
  \/ RunLaunchWriter
  \/ RunCloseReady
  \/ RunWait
  \/ ServeInit
  \/ ReaderRead(DatagramShapes, MaxDatagrams)
  \/ ReaderReadError
  \/ ReaderReadClosed
  \/ ServeCancel
  \/ ServeRecv
  \/ ServeCopy
  \/ ServeForward
  \/ ParserCancel
  \/ ParserRecv
  \/ ParserSend
  \/ ParserCount
  \/ BatcherTake
  \/ BatcherTimeout(MaxTimeouts)
  \/ WriterCancel
  \/ WriterRecv
  \/ createInternalStorage(BOOLEAN)
  \/ WriterWrite(BOOLEAN)
  \/ WriterCountOk
  \/ WriterCountFail

Spec == Init /\ [][Next]_vars

\* The steps of each goroutine that the scheduler runs once they can be
\* taken.  A datagram arriving, the caller deciding to call Close and the
\* owner of ctx cancelling it are not among them.
SupervisorNext ==
  \/ RunValidate
  \/ RunResolve(BOOLEAN)
  \/ RunListen(BOOLEAN)
  \/ RunSetReadBuffer(BOOLEAN)
  \/ RunStartBatcher
  \/ RunLaunchServe
  \/ RunLaunchParser
  \/ RunLaunchWriter
  \/ RunCloseReady
  \/ RunWait

CallerNext == OpenReturn \/ CloseReturn

ServeNext == ServeInit \/ ServeCancel \/ ServeRecv \/ ServeCopy \/ ServeForward

ParserNext == ParserCancel \/ ParserRecv \/ ParserSend \/ ParserCount

BatcherNext == BatcherTake \/ BatcherTimeout(MaxTimeouts)

WriterNext ==
  \/ WriterCancel
  \/ WriterRecv
  \/ createInternalStorage(BOOLEAN)
  \/ WriterWrite(BOOLEAN)
  \/ WriterCountOk
  \/ WriterCountFail

Fairness ==
  /\ WF_vars(SupervisorNext)
  /\ WF_vars(CallerNext)
  /\ WF_vars(ReaderReadClosed)
  /\ WF_vars(ServeNext)
  /\ WF_vars(ParserNext)
  /\ WF_vars(BatcherNext)
  /\ WF_vars(WriterNext)

\* The service under a fair scheduler.
FairSpec == Spec /\ Fairness

\* Start and stop on a silent network, for every configuration.
StartInit == InitWith(Configs)

StartNext ==
  \/ Run
  \/ RunWithReady
  \/ Open
  \/ OpenReturn
  \/ Close
  \/ CloseReturn
  \/ Cancel
  \/ RunValidate
  \/ RunResolve(BOOLEAN)
  \/ RunListen(BOOLEAN)
  \/ RunSetReadBuffer(BOOLEAN)
  \/ RunStartBatcher
  \/ RunLaunchServe
  \/ RunLaunchParser
  \/ RunLaunchWriter
  \/ RunCloseReady
  \/ RunWait
  \/ ServeInit
  \/ ReaderReadClosed
  \/ ServeCancel
  \/ ParserCancel
  \/ WriterCancel

StartSpec == StartInit /\ [][StartNext]_vars /\ Fairness

\* The happy path: a valid configuration, BatchSize datagrams of one valid
\* line each, no cancellation, and every external call succeeds.  The flush
\* timer may release any partial batch.
HappyInit == InitWith({ c \in RunConfigs : c.BindAddress # "" /\ c.Database # "" })

HappyNext ==
  \/ Run
  \/ RunWithReady
  \/ Open
  \/ OpenReturn
  \/ RunValidate
  \/ RunResolve({TRUE})
  \/ RunListen({TRUE})
  \/ RunSetReadBuffer({TRUE})
  \/ RunStartBatcher
  \/ RunLaunchServe
  \/ RunLaunchParser
  \/ RunLaunchWriter
  \/ RunCloseReady
  \/ ServeInit
  \/ ReaderRead(SingleRecord, BatchSize)
  \/ ReaderReadError
  \/ ServeRecv
  \/ ServeCopy
  \/ ServeForward
  \/ ParserRecv
  \/ ParserSend
  \/ ParserCount
  \/ BatcherTake
  \/ BatcherTimeout(BatchSize)
  \/ WriterRecv
  \/ createInternalStorage({TRUE})
  \/ WriterWrite({TRUE})
  \/ WriterCountOk

HappyFairness ==
  /\ WF_vars(SupervisorNext)
  /\ WF_vars(CallerNext)
  /\ WF_vars(ServeNext)
  /\ WF_vars(ParserNext)
  /\ WF_vars(BatcherTake)
  /\ WF_vars(BatcherTimeout(BatchSize))
  /\ WF_vars(WriterNext)

HappySpec == HappyInit /\ [][HappyNext]_vars /\ HappyFairness

(***************************************************************************)
(* Properties                                                              *)
(***************************************************************************)

RECURSIVE SumSizes(_)
\* Number of records in the write calls of log l.
SumSizes(l) == IF l = <<>> THEN 0 ELSE Len(Head(l).pts) + SumSizes(Tail(l))

RECURSIVE Flatten(_)
\* The records of the write calls of log l, in the order they were passed.
Flatten(l) == IF l = <<>> THEN <<>> ELSE Head(l).pts \o Flatten(Tail(l))

OkWrites == SelectSeq(writeLog, LAMBDA w : w.ok)
FailedWrites == SelectSeq(writeLog, LAMBDA w : ~w.ok)

\* The step is a CreateDatabase call that failed.
CreateFailedStep ==
  /\ Len(createLog') = Len(createLog) + 1
  /\ ~createLog'[Len(createLog')].ok

\* The step is a WritePointsPrivileged call that failed.
WriteFailedStep ==
  /\ Len(writeLog') = Len(writeLog) + 1
  /\ ~writeLog'[Len(writeLog')].ok

\* The step is the parser taking a payload that fails to decode.
DecodeFailedStep ==
  /\ parserPc = "select"
  /\ Len(parserChan') < Len(parserChan)
  /\ ParsePointsWithPrecision(Head(parserChan)).err

\* The outer serve loop is blocked sending into the full relay channel.
ForwardBlocked == servePc = "forward" /\ Len(parserChan) = parserChanLen

\* The service is Running: the stage loops are launched and ready is released.
Running == runPc = "wait"

\* C1: once the cancellation signal has fired in a Running state, the serve,
\* parser and writer loops eventually exit and RunWithReady returns nil to
\* its caller.
C1_ShutdownCompletes ==
  (Running /\ cancelled) ~>
    /\ servePc = "done" /\ parserPc = "done" /\ writerPc = "done"
    /\ runPc = "returned" /\ runErr = "nil"
    /\ callerPc = "returned" /\ callerResult = "nil"

\* C2: when RunWithReady fails at startup no stage loop is launched, ready is
\* not released, the service is not Running, and the call of the entry point
\* (Run, RunWithReady or Open) returns the error to its caller.
C2_StartupErrorPropagated ==
  /\ [](runErr = "err" =>
          /\ servePc = "none" /\ parserPc = "none" /\ writerPc = "none"
          /\ readyChan = "open"
          /\ ~Running)
  /\ (runErr = "err") ~> (callerPc \in {"returned", "opened"} /\ callerResult = "err")

\* C3 as stated: CreateDatabase is invoked at most once per running
\* instance, whatever the outcome of the call.
C3_CreateAtMostOnce == Len(createLog) <= 1

\* C3 amended: no CreateDatabase call follows a call that succeeded, so at
\* most one call per running instance succeeds; calls that failed may be
\* followed by further calls.
C3_NoCreateAfterSuccess ==
  \A i \in 1..Len(createLog) : createLog[i].ok => i = Len(createLog)

C3_Witness ==
  /\ Len(createLog) >= 1
  /\ createLog[Len(createLog)].ok
  /\ \E w \in 1..Len(writeLog) : writeLog[w].no > createLog[Len(createLog)].no

\* C4: a batch whose CreateDatabase call fails is discarded: the failing step
\* issues no write and changes no counter, leaves ready false and returns the
\* writer to its select; no write call is ever made for that batch; and a
\* writer that handles a batch while ready is false calls CreateDatabase.
C4_CreateFailureDropsBatch ==
  /\ [][CreateFailedStep =>
          /\ writeLog' = writeLog
          /\ stats' = stats
          /\ ~ready /\ ~ready'
          /\ writerPc' = "select"]_vars
  /\ [](\A i \in 1..Len(createLog) : \A j \in 1..Len(writeLog) :
          ~createLog[i].ok => writeLog[j].no # createLog[i].no)
  /\ [][(writerPc = "create" /\ writerPc' # "create" /\ ~ready) =>
          /\ Len(createLog') = Len(createLog) + 1
          /\ createLog'[Len(createLog')].no = batch.no]_vars

C4_Witness ==
  \E i \in 1..Len(createLog) :
    /\ ~createLog[i].ok
    /\ i < Len(createLog)
    /\ createLog[i + 1].no > createLog[i].no
    /\ writerPc = "select"

\* C5: a failed write call increases BatchesTransmitFail by exactly 1 and
\* leaves BatchesTransmitted and PointsTransmitted alone, no batch is passed
\* to the write call twice, and after the failure the writer is back at its
\* select, where later batches are taken and written.
C5_WriteFailureNoRetry ==
  /\ [][WriteFailedStep => (stats' = stats /\ writerPc' = "acct_fail")]_vars
  /\ [][(writerPc = "acct_fail" /\ writerPc' # "acct_fail") =>
          /\ stats' = [stats EXCEPT !.BatchesTransmitFail = @ + 1]
          /\ writeLog' = writeLog
          /\ writerPc' = "select"]_vars
  /\ [](\A i, j \in 1..Len(writeLog) : writeLog[i].no = writeLog[j].no => i = j)

C5_Witness ==
  \E i, j \in 1..Len(writeLog) :
    /\ i < j
    /\ ~writeLog[i].ok
    /\ writeLog[j].ok
    /\ stats.BatchesTransmitFail = 1
    /\ stats.BatchesTransmitted = 1

\* C6: whenever the writer is not handling a batch, BatchesTransmitted is the
\* number of write calls that succeeded, PointsTransmitted the number of
\* records in those calls, and BatchesTransmitFail the number of write calls
\* that failed.
C6_DeliveryAccounting ==
  writerPc \in {"none", "select", "done"} =>
    /\ stats.BatchesTransmitted = Len(OkWrites)
    /\ stats.PointsTransmitted = SumSizes(OkWrites)
    /\ stats.BatchesTransmitFail = Len(FailedWrites)

C6_Witness ==
  /\ writerPc = "select"
  /\ Len(OkWrites) >= 1
  /\ Len(FailedWrites) >= 1
  /\ SumSizes(OkWrites) > Len(OkWrites)

\* C7: the step in which the parser takes a payload that fails to decode
\* increases PointsParseFail by exactly 1, leaves PointsReceived alone, hands
\* no record to the batcher and keeps none to hand over, causes no
\* CreateDatabase or write call, and leaves the parser at its select; and
\* every record handed to the batcher belongs to a payload that decoded.
C7_DecodeFailure ==
  /\ [][DecodeFailedStep =>
          /\ stats' = [stats EXCEPT !.PointsParseFail = @ + 1]
          /\ handedIn' = handedIn
          /\ batcherIn' = batcherIn
          /\ batcherBatch' = batcherBatch
          /\ points' = <<>>
          /\ createLog' = createLog
          /\ writeLog' = writeLog
          /\ parserPc' = "select"]_vars
  /\ [](parserPc \in {"select", "done"} => handedIn = stats.PointsReceived)

C7_Witness ==
  /\ stats.PointsParseFail >= 1
  /\ stats.PointsReceived >= 1
  /\ parserPc = "select"

\* What C8 expects of a run with BatchSize single-record payloads.
HappyResult ==
  /\ stats.PointsReceived = BatchSize
  /\ Len(writeLog) = 1
  /\ Len(writeLog[1].pts) = BatchSize
  /\ stats.BatchesTransmitted = 1
  /\ stats.PointsTransmitted = BatchSize
  /\ stats.BatchesTransmitFail = 0

\* C8 as stated: once BatchSize valid single-record payloads have been read,
\* eventually PointsReceived = BatchSize and exactly one write call, of a
\* batch of BatchSize records, has been made and counted.
C8_HappyPath == (reads = BatchSize) ~> HappyResult

\* C8 amended: the same, provided the flush timer releases no batch: once
\* BatchSize valid single-record payloads have been read, eventually either
\* the result above holds, or the flush timer has released a batch and all
\* BatchSize records have still been handed to the batcher.
C8_HappyPathNoFlush ==
  (reads = BatchSize) ~>
    (HappyResult \/ (timeouts > 0 /\ handedIn = BatchSize))

C8_Witness == HappyResult /\ timeouts = 0 /\ reads = BatchSize

\* C9 as stated: while the outer loop is blocked forwarding into the full
\* relay channel, no socket read is made.
C9_NoReadWhileBlocked ==
  [][ForwardBlocked => (reads' = reads /\ readErrs' = readErrs)]_vars

\* C9 amended: the inner loop makes a socket read only after its previous
\* result was handed off, so at most one read is made between two handoffs;
\* while the outer loop is blocked forwarding into the full relay channel at
\* most one further read is made, and its result waits for the handoff.
C9_OneReadAhead ==
  /\ [](readsSinceHandoff <= 1)
  /\ [](readerPc = "handoff" <=> readsSinceHandoff = 1)
  /\ [][(ForwardBlocked /\ ForwardBlocked') =>
          (reads' + readErrs') - (reads + readErrs) <= 1 - readsSinceHandoff]_vars

C9_Witness ==
  /\ ForwardBlocked
  /\ readerPc = "handoff"
  /\ readsSinceHandoff = 1
  /\ reads + readErrs = parserChanLen + 2

\* C10: the records passed to the write calls, taken in call order, are in
\* the order the listener read them and none appears twice.
C10_OrderPreserved ==
  LET f == Flatten(writeLog) IN
    \A i, j \in 1..Len(f) : i < j => f[i] < f[j]

\* The socket is bound and the serve, parser and writer loops are launched.
Launched ==
  /\ conn # "nil"
  /\ servePc # "none"
  /\ parserPc # "none"
  /\ writerPc # "none"

\* C11: the ready channel is closed only by a step taken with the socket
\* bound and the serve, parser and writer loops launched, so whenever it is
\* closed they are; and Open has returned to its caller only in such a state.
C11_ReadyAfterLaunch ==
  /\ [][(readyChan = "open" /\ readyChan' = "closed") => Launched]_vars
  /\ [](readyChan = "closed" => Launched)
  /\ [](callerPc = "opened" => (readyChan = "closed" /\ Launched))

C11_Witness ==
  /\ callerPc = "opened"
  /\ callerResult = "nil"
  /\ readyChan = "closed"
  /\ Launched

\* The step is the outer serve loop receiving the result of a failed read.
ReadErrorStep ==
  /\ servePc = "select"
  /\ readerPc = "handoff"
  /\ payload.err
  /\ readerPc' = "read"

\* A failed read is waiting to be handed to the outer serve loop.
PendingReadError == readerPc = "handoff" /\ payload.err

\* C12: the step in which the outer loop receives a failed read increases
\* ReadFail by exactly 1 and changes no other counter, puts nothing into
\* parserChan, leaves the socket open, ends no loop and sends the inner
\* goroutine to its next read; ReadFail changes in no other step; and while
\* the socket is open ReadFail is the number of failed reads received.
C12_ReadErrorTolerated ==
  /\ [][ReadErrorStep =>
          /\ stats' = [stats EXCEPT !.ReadFail = @ + 1]
          /\ parserChan' = parserChan
          /\ bufCopy' = bufCopy
          /\ conn' = conn
          /\ wg' = wg
          /\ servePc' = "select"
          /\ readerPc' = "read"
          /\ parserPc' = parserPc
          /\ writerPc' = writerPc]_vars
  /\ [][stats'.ReadFail # stats.ReadFail => ReadErrorStep]_vars
  /\ [](conn = "open" =>
          stats.ReadFail = readErrs - (IF PendingReadError THEN 1 ELSE 0))

C12_Witness ==
  /\ stats.ReadFail = 1
  /\ servePc = "select"
  /\ parserPc = "select"
  /\ writerPc = "select"
  /\ readerPc = "handoff"
  /\ ~payload.err
  /\ reads = MaxDatagrams

\* C13: the payload the outer loop forwards is the datagram whose read
\* produced its length, and no socket read writes into buf between the
\* handoff of a read result and the copy of buf[:nbytes].
C13_NoBufferAliasing ==
  /\ [][servePc = "got" => buf' = buf]_vars
  /\ [](servePc = "forward" => bufCopy = servePayload.data)

\* C14: once the outer serve loop has exited, the inner read goroutine is
\* not left blocked on a handoff that nobody receives.
C14_NoLeakedHandoff == ~(servePc = "done" /\ readerPc = "handoff")

\* C15: in a run without read errors on the open socket, once the service
\* has stopped and the in-flight read has failed because of the close,
\* ReadFail has counted that failure.
C15_CloseReadErrorCounted ==
  (runPc = "returned" /\ runErr = "nil" /\ readErrs = 0 /\ PendingReadError) =>
    stats.ReadFail >= 1

\* RunWithReady has returned.
Returned == runPc \in {"returned", "exited"}

\* C16: when RunWithReady has returned nil the serve, parser and writer
\* loops have all exited, and once it has returned no CreateDatabase call
\* and no write call is made and none of the seven counters changes.
C16_StoppedAfterLoopsExit ==
  /\ []((Returned /\ runErr = "nil") =>
          /\ servePc = "done"
          /\ parserPc = "done"
          /\ writerPc = "done"
          /\ wg = 0)
  /\ [][Returned =>
          /\ createLog' = createLog
          /\ writeLog' = writeLog
          /\ stats' = stats]_vars

C16_Witness ==
  /\ Returned
  /\ runErr = "nil"
  /\ stats.PointsReceived >= 1
  /\ stats.BatchesTransmitted >= 1

\* C17: in a step taken after the cancellation signal has fired, a loop
\* that is at its select takes no further unit of work: the parser takes
\* no payload from parserChan, the outer serve loop receives no read
\* result, and the writer takes no batch from the batcher.
C17_NoWorkAfterCancel ==
  [][cancelled =>
       /\ (parserPc = "select" => Len(parserChan') >= Len(parserChan))
       /\ (servePc = "select" =>
             (servePc' # "got" /\ stats'.ReadFail = stats.ReadFail))
       /\ (writerPc = "select" => writerPc' # "create")]_vars

\* The step is the writer leaving createInternalStorage with s.ready set.
ReadyPassStep == ready /\ writerPc = "create" /\ writerPc' # "create"

\* C18: s.ready is false until a CreateDatabase call has succeeded and true
\* from then on: it is never reset, it is set only by a step that logs a
\* successful call, and while it is true no CreateDatabase call is made and
\* every batch the writer has taken goes on to the write call.
C18_ReadyMonotonic ==
  /\ [](ready <=> \E i \in 1..Len(createLog) : createLog[i].ok)
  /\ [][ready => ready']_vars
  /\ [][(~ready /\ ready') =>
          /\ Len(createLog') = Len(createLog) + 1
          /\ createLog'[Len(createLog')].ok]_vars
  /\ [][ready => createLog' = createLog]_vars
  /\ [][ReadyPassStep => (writerPc' = "write" /\ batch' = batch)]_vars
  /\ [][(ready /\ writerPc = "write" /\ writerPc' # "write") =>
          /\ Len(writeLog') = Len(writeLog) + 1
          /\ writeLog'[Len(writeLog')].no = batch.no
          /\ writeLog'[Len(writeLog')].pts = batch.pts]_vars

C18_Witness ==
  /\ ready
  /\ Len(createLog) = 1
  /\ Len(writeLog) = 2
  /\ writeLog[2].no > createLog[1].no

\* Records of the payload the parser is handling that are already handed
\* into the batcher input.
HandedOfCurrent == pidx - 1

\* C19: PointsReceived changes only in the step that follows the handoff of
\* the last record of a decoded payload, and then by the number of records
\* of that payload; so PointsReceived is the number of records handed into
\* the batcher input less those of the payload still being handled, and
\* never more than the number handed in.
C19_CountedAfterHandoff ==
  /\ [][stats'.PointsReceived # stats.PointsReceived =>
          /\ parserPc = "count"
          /\ pidx = Len(points) + 1
          /\ stats'.PointsReceived = stats.PointsReceived + Len(points)
          /\ handedIn' = handedIn]_vars
  /\ [](stats.PointsReceived = handedIn - HandedOfCurrent)
  /\ [](stats.PointsReceived <= handedIn)

C19_Witness ==
  /\ parserPc = "send"
  /\ Len(points) = 2
  /\ pidx = 2
  /\ stats.PointsReceived = 2
  /\ handedIn = 3

\* C20 as stated: PointsTransmitted never exceeds PointsReceived.
C20_TxAtMostRx == stats.PointsTransmitted <= stats.PointsReceived

\* C20 amended: PointsTransmitted never exceeds the number of records
\* handed into the batcher input, and it does not exceed PointsReceived
\* whenever the parser is not in the middle of handling a payload.
C20_TxAtMostHandedIn ==
  /\ stats.PointsTransmitted <= handedIn
  /\ parserPc \in {"none", "select", "done"} =>
       stats.PointsTransmitted <= stats.PointsReceived

C20_Witness ==
  /\ stats.PointsTransmitted > stats.PointsReceived
  /\ parserPc \in {"send", "count"}

====
